---- MODULE Spec2Model ----
(***************************************************************************)
(* Model of the conversation orchestration of ChatView.tsx:                *)
(* handleSendMessage (submit, shaping, elision judge, streaming, title,    *)
(* tool dispatch, catch/finally), cancelCurrentCall and                    *)
(* updateConversationMessages.                                             *)
(*                                                                         *)
(* Strings that the code takes apart are sequences: a text is a sequence   *)
(* of tokens, a judge line is the sequence of its parts between ': '.      *)
(* Tool-use ids are positive integers; 0 stands for "no id" (undefined).   *)
(***************************************************************************)
EXTENDS Integers, Sequences, FiniteSets, TLC

VARIABLES
  messages,       \* stored messages of the active conversation
  convName,       \* stored name of the active conversation
  apiKey,         \* activeProject.settings.apiKey is set
  elide,          \* activeProject.settings.elideToolResults
  isLoading,      \* useState isLoading
  error,          \* useState error ("" is null)
  shouldCancel,   \* shouldCancelRef.current
  turns,          \* one record per call of handleSendMessage
  nturns,         \* number of accepted submits so far
  fnIn,           \* input of the pure function under check
  fnOut           \* its result

vars == <<messages, convName, apiKey, elide, isLoading, error,
          shouldCancel, turns, nturns, fnIn, fnOut>>

----------------------------------------------------------------------------
(* Bounds *)

MaxTurns == 2
MaxToolUses == 1
MaxDeltas == 2
MaxLines == 1
MaxHist == 4
MaxJudgeLines == 2
MaxLog == 3
MaxBuilds == 2
MaxServers == 2
MaxServerTools == 2

TurnIds == 1..MaxTurns

----------------------------------------------------------------------------
(* Messages and content blocks (types.ts) *)

NoId == 0

Block(type, text, id, name, tuid, content, isErr) ==
  [type |-> type, text |-> text, id |-> id, name |-> name,
   tool_use_id |-> tuid, content |-> content, is_error |-> isErr,
   cache_control |-> FALSE]

TextBlock(text) == Block("text", text, NoId, "", NoId, "", FALSE)
ToolUseBlock(id, name) == Block("tool_use", <<>>, id, name, NoId, "", FALSE)
ToolResultBlock(tuid, content, isErr) ==
  Block("tool_result", <<>>, NoId, "", tuid, content, isErr)

\* A message whose content is an array of blocks.
ArrayMessage(role, content) ==
  [role |-> role, isStr |-> FALSE, text |-> <<>>, content |-> content]

\* A message whose content is a plain string.
StringMessage(role, text) ==
  [role |-> role, isStr |-> TRUE, text |-> text, content |-> <<>>]

RECURSIVE FlatMapContent(_)
\* .filter(Array.isArray(msg.content)).flatMap(msg => msg.content)
FlatMapContent(msgs) ==
  IF msgs = <<>> THEN <<>>
  ELSE (IF Head(msgs).isStr THEN <<>> ELSE Head(msgs).content)
       \o FlatMapContent(Tail(msgs))

\* Array.prototype.find: index of the first block of one of the types, or 0.
FindType(content, types) ==
  LET hits == {i \in 1..Len(content) : content[i].type \in types}
  IN IF hits = {} THEN 0 ELSE CHOOSE i \in hits : \A j \in hits : i <= j

----------------------------------------------------------------------------
(* Context/cache shaping: cachedApiMessages *)

CacheBoundary == 3

MarkCache(b) == [b EXCEPT !.cache_control = TRUE]

\* ShapeMessage with a trailing window of two messages
ShapeMessage_Window2(m, i, n) ==
  IF i - 1 < n - 2
  THEN m
  ELSE ArrayMessage(m.role,
         IF m.isStr
         THEN <<MarkCache(TextBlock(m.text))>>
         ELSE [j \in 1..Len(m.content) |->
                 IF j # Len(m.content) THEN m.content[j]
                 ELSE MarkCache(m.content[j])])

\* the message at 1-based position i of an array of length n
ShapeMessage(m, i, n) ==
  IF i - 1 < n - CacheBoundary
  THEN m
  ELSE ArrayMessage(m.role,
         IF m.isStr
         THEN <<MarkCache(TextBlock(m.text))>>
         ELSE [j \in 1..Len(m.content) |->
                 IF j # Len(m.content) THEN m.content[j]
                 ELSE MarkCache(m.content[j])])

\* cachedApiMessages that leaves the messages unmarked while the cancel flag
\* is set
cachedApiMessages_Flagged(msgs) ==
  [i \in 1..Len(msgs) |->
     IF shouldCancel THEN msgs[i] ELSE ShapeMessage(msgs[i], i, Len(msgs))]

cachedApiMessages(msgs) ==
  [i \in 1..Len(msgs) |-> ShapeMessage(msgs[i], i, Len(msgs))]

newestToolResultId(msgs) ==
  LET ids == SelectSeq(FlatMapContent(msgs),
                       LAMBDA c : c.type = "tool_result")
  IN IF ids = <<>> THEN NoId ELSE ids[Len(ids)].tool_use_id

----------------------------------------------------------------------------
(* Elision *)

Elided == "elided"

\* JudgeNeeded that asks the judge in every iteration with elision on
JudgeNeeded_Always(el, shaped) == el

\* the judge is asked when the first block of the last shaped message is a
\* tool_result
JudgeNeeded(el, shaped) ==
  el /\ shaped[Len(shaped)].content[1].type = "tool_result"

\* ElideMessage without the exemption of the newest tool result
ElideMessage_NoNewest(msg, newest, saved) ==
  IF msg.isStr THEN msg
  ELSE LET k == FindType(msg.content, {"tool_result"})
       IN IF k = 0 THEN msg
          ELSE IF msg.content[k].tool_use_id \in saved
               THEN msg
               ELSE [msg EXCEPT !.content =
                        <<[msg.content[1] EXCEPT !.content = Elided]>>]

ElideMessage(msg, newest, saved) ==
  IF msg.isStr THEN msg
  ELSE LET k == FindType(msg.content, {"tool_result"})
       IN IF k = 0 THEN msg
          ELSE IF msg.content[k].tool_use_id = newest
                  \/ msg.content[k].tool_use_id \in saved
               THEN msg
               ELSE [msg EXCEPT !.content =
                        <<[msg.content[1] EXCEPT !.content = Elided]>>]

\* the instruction message that ends the judge request
JudgePrompt ==
  ArrayMessage("user", <<MarkCache(TextBlock(<<"Rate each message">>))>>)

\* one message of the judge request: the blocks are rendered by
\* JSON.stringify into the text of a new message
JudgeTranscriptMessage(msg) ==
  IF FindType(msg.content, {"tool_result"}) = 0
  THEN [msg EXCEPT !.content =
          <<msg.content[1],
            TextBlock(<<IF Len(msg.content) >= 2
                        THEN ToString(msg.content[2]) ELSE "undefined">>)>>]
  ELSE [msg EXCEPT !.content =
          <<TextBlock(<<ToString([msg.content[1] EXCEPT !.content = Elided])>>)>>]

\* messages of the judge request: the tool messages of the shaped array,
\* rendered, followed by the instruction
JudgeTranscript(shaped) ==
  LET sel == SelectSeq(shaped,
               LAMBDA m : /\ ~m.isStr
                          /\ FindType(m.content, {"tool_use", "tool_result"}) # 0)
  IN [i \in 1..Len(sel) |-> JudgeTranscriptMessage(sel[i])] \o <<JudgePrompt>>

\* apiMessagesToSend that elides whatever the setting
apiMessagesToSend_Always(el, shaped, newest, saved) ==
  [i \in 1..Len(shaped) |-> ElideMessage(shaped[i], newest, saved)]

apiMessagesToSend(el, shaped, newest, saved) ==
  IF ~el THEN shaped
  ELSE [i \in 1..Len(shaped) |-> ElideMessage(shaped[i], newest, saved)]

----------------------------------------------------------------------------
(* Verdict parsing.  A line is the result of line.split(': '): the sequence *)
(* of its parts; [key, value] are the first two, value is undefined for a   *)
(* line of one part.                                                        *)

Undefined == "undefined"

\* String.prototype.trim on the values the judge is modelled to send
Trim(s) ==
  CASE s = " Yes" -> "Yes"
    [] s = "No " -> "No"
    [] OTHER -> s

\* ApplyVerdict in which a No leaves the set alone
ApplyVerdict_NoKeeps(saved, key, value) ==
  IF Trim(value) = "Yes" THEN saved \cup {key}
  ELSE saved

ApplyVerdict(saved, key, value) ==
  IF Trim(value) = "Yes" THEN saved \cup {key}
  ELSE IF Trim(value) = "No" THEN saved \ {key}
  ELSE saved

RECURSIVE ParseLines(_, _)
\* the for loop over lines: the set after the loop and whether value.trim()
\* threw on an undefined value (the lines after it are not reached)
ParseLines(saved, lines) ==
  IF lines = <<>> THEN [saved |-> saved, threw |-> FALSE]
  ELSE LET line == Head(lines)
           key == line[1]
           value == IF Len(line) >= 2 THEN line[2] ELSE Undefined
       IN IF value = Undefined
          THEN [saved |-> saved, threw |-> TRUE]
          ELSE ParseLines(ApplyVerdict(saved, key, value), Tail(lines))

\* reply.isText is keepToolResponse.content[0].type === 'text'
ParseJudge(saved, reply) ==
  IF reply.isText THEN ParseLines(saved, reply.lines)
  ELSE [saved |-> saved, threw |-> FALSE]

----------------------------------------------------------------------------
(* Title cleaning.  A reply text is a sequence of tokens. *)

RECURSIVE RemoveAll(_, _)
\* .replace(/["']/g, '')
RemoveAll(text, toks) ==
  IF text = <<>> THEN <<>>
  ELSE IF Head(text) \in toks THEN RemoveAll(Tail(text), toks)
  ELSE <<Head(text)>> \o RemoveAll(Tail(text), toks)

\* .replace(pat, ''): removes the first occurrence of the token sequence pat
RemoveFirst(text, pat) ==
  LET n == Len(pat)
      hits == {i \in 1..(Len(text) - n + 1) : SubSeq(text, i, i + n - 1) = pat}
  IN IF hits = {} THEN text
     ELSE LET i == CHOOSE h \in hits : \A g \in hits : h <= g
          IN SubSeq(text, 1, i - 1) \o SubSeq(text, i + n, Len(text))

RECURSIVE TrimLeft(_)
TrimLeft(text) ==
  IF text # <<>> /\ Head(text) = " " THEN TrimLeft(Tail(text)) ELSE text

RECURSIVE TrimRight(_)
TrimRight(text) ==
  IF text # <<>> /\ text[Len(text)] = " "
  THEN TrimRight(SubSeq(text, 1, Len(text) - 1)) ELSE text

TrimText(text) == TrimRight(TrimLeft(text))

suggestedTitle(text) ==
  TrimText(
    RemoveFirst(
      RemoveFirst(
        RemoveFirst(
          RemoveFirst(RemoveAll(text, {"\"", "'"}), <<"title", ":">>),
          <<"Title", ":">>),
        <<"title">>),
      <<"Title">>))

----------------------------------------------------------------------------
(* Tool servers (useMcp) *)

\* servers: the connected servers and the tools each advertises
servers ==
  <<[id |-> "s0", tools |-> <<"search">>],
    [id |-> "s1", tools |-> <<"search">>]>>

\* activeProject.settings.mcpServers: the ids of the configured servers
mcpServers == <<"s1">>

\* servers.find(s => s.tools?.some(t => t.name === name)): its index or 0
serverWithTool(name) ==
  LET hits == {i \in 1..Len(servers) :
                 \E j \in 1..Len(servers[i].tools) : servers[i].tools[j] = name}
  IN IF hits = {} THEN 0 ELSE CHOOSE i \in hits : \A j \in hits : i <= j

ToolNames == {"search", "ghost"}

NoServerError(name) ==
  IF name = "search" THEN "Error: No server found for tool search"
  ELSE "Error: No server found for tool ghost"

----------------------------------------------------------------------------
(* State of one call of handleSendMessage *)

ActivePcs == {"judge", "stream", "title", "tool"}
RequestPcs == {"judge", "stream", "title"}

IdleTurn ==
  [pc |-> "idle",          \* await point: idle, judge, stream, title, tool, done
   cur |-> <<>>,           \* currentMessages
   saved |-> {},           \* savedToolResults
   snapName |-> <<>>,      \* name of the conversation in the captured activeProject
   streamText |-> <<>>,    \* textContent.text of currentStreamMessage
   final |-> <<>>,         \* finalResponse.content
   sent |-> <<>>,          \* messages of the streaming request in flight
   base |-> 0,             \* length of currentMessages at submit
   pending |-> {},         \* ids of received tool_use blocks without a result
   server |-> "",          \* id of the server executeTool was called with
   handed |-> FALSE,       \* the array currentMessages itself was given to the store
   cancelledAt |-> "none"] \* await point at which the cancel flag was set

\* a call that has returned: its locals are gone
DoneTurn == [IdleTurn EXCEPT !.pc = "done"]

Init ==
  /\ messages = <<>>
  /\ convName = <<"New Chat">>
  /\ apiKey \in BOOLEAN
  /\ elide \in BOOLEAN
  /\ isLoading = FALSE
  /\ error = ""
  /\ shouldCancel = FALSE
  /\ turns = [t \in TurnIds |-> IdleTurn]
  /\ nturns = 0
  /\ fnIn = <<>>
  /\ fnOut = [set |-> FALSE, val |-> <<>>, threw |-> FALSE]

----------------------------------------------------------------------------
(* Steps of handleSendMessage between two await points.  An effect is the  *)
(* call's record together with the component and store state it writes.    *)

Eff(t) ==
  [r |-> turns[t], msgs |-> messages, name |-> convName, err |-> error,
   cancel |-> shouldCancel, loading |-> isLoading]

\* updateConversationMessages: the conversation of the captured project
\* with its messages replaced
updateConversationMessages(e, newMessages) ==
  [e EXCEPT !.msgs = newMessages, !.name = e.r.snapName]

\* Finally that takes the messages of the turn out of the store
Finally_Rollback(e) ==
  [e EXCEPT !.cancel = FALSE, !.loading = FALSE, !.r = DoneTurn,
            !.msgs = SubSeq(e.r.cur, 1, e.r.base - 1)]

\* finally block
Finally(e) ==
  [e EXCEPT !.cancel = FALSE, !.loading = FALSE, !.r = DoneTurn]

\* Catch that reports nothing
Catch_NoReport(e, msg) ==
  Finally(e)

\* catch block of handleSendMessage
Catch(e, msg) ==
  Finally(IF ~e.cancel THEN [e EXCEPT !.err = msg] ELSE e)

\* SendMain that elides the messages of currentMessages in place
SendMain_InPlace(e) ==
  LET shaped == cachedApiMessages(e.r.cur)
      newest == newestToolResultId(e.r.cur)
  IN [e EXCEPT !.r.pc = "stream",
               !.r.sent = apiMessagesToSend(elide, shaped, newest, e.r.saved),
               !.r.cur = IF ~elide THEN e.r.cur
                         ELSE [i \in 1..Len(e.r.cur) |->
                                 ElideMessage(e.r.cur[i], newest, e.r.saved)],
               !.r.streamText = <<>>,
               !.r.final = <<>>]

\* apiMessagesToSend and the call of anthropic.messages.stream
SendMain(e) ==
  LET shaped == cachedApiMessages(e.r.cur)
  IN [e EXCEPT !.r.pc = "stream",
               !.r.sent = apiMessagesToSend(elide, shaped,
                             newestToolResultId(e.r.cur), e.r.saved),
               !.r.streamText = <<>>,
               !.r.final = <<>>]

\* top of the while (true) loop up to its first await
LoopTop(e) ==
  IF JudgeNeeded(elide, cachedApiMessages(e.r.cur))
  THEN [e EXCEPT !.r.pc = "judge", !.r.final = <<>>]
  ELSE SendMain(e)

\* BreakLoop that leaves the loop on cancellation only
BreakLoop_CancelOnly(cancel, hasToolUse) == cancel

\* if (shouldCancelRef.current || !toolUseContent) break
BreakLoop(cancel, hasToolUse) == cancel \/ ~hasToolUse

\* ToolResultMessage that never sets is_error
ToolResultMessage_NoFlag(tuid, content, isErr) ==
  ArrayMessage("user", <<ToolResultBlock(tuid, content, FALSE)>>)

ToolResultMessage(tuid, content, isErr) ==
  ArrayMessage("user", <<ToolResultBlock(tuid, content, isErr)>>)

\* currentMessages.push(m); updateConversationMessages(currentMessages)
PushResult(e, m) ==
  LET e1 == [e EXCEPT !.r.cur = Append(@, m),
                      !.r.pending = @ \ {m.content[1].tool_use_id}]
  IN updateConversationMessages([e1 EXCEPT !.r.handed = TRUE], e1.r.cur)

\* ToolCatch that leaves the loop after the error result
ToolCatch_Stop(e, tuid, content) ==
  Finally(PushResult(e, ToolResultMessage(tuid, content, TRUE)))

\* catch block of the tool dispatch, then the loop exit test
ToolCatch(e, tuid, content) ==
  LET e1 == PushResult(e, ToolResultMessage(tuid, content, TRUE))
  IN IF BreakLoop(e1.cancel, TRUE) THEN Finally(e1) ELSE LoopTop(e1)

\* success path of the tool dispatch: push, update, continue
ToolContinue(e, tuid, content) ==
  LoopTop(PushResult(e, ToolResultMessage(tuid, content, FALSE)))

\* ToolPhase that runs the loop again after a response without tool_use
ToolPhase_NoBreak(e) ==
  LET k == FindType(e.r.final, {"tool_use"})
  IN IF k = 0
     THEN LoopTop(e)
     ELSE IF serverWithTool(e.r.final[k].name) = 0
          THEN ToolCatch(e, e.r.final[k].id, NoServerError(e.r.final[k].name))
          ELSE [e EXCEPT !.r.pc = "tool",
                         !.r.server =
                           servers[serverWithTool(e.r.final[k].name)].id]

\* tool handling after the final response (and the title call) settled
ToolPhase(e) ==
  LET k == FindType(e.r.final, {"tool_use"})
  IN IF k = 0
     THEN (IF BreakLoop(e.cancel, FALSE) THEN Finally(e) ELSE LoopTop(e))
     ELSE IF serverWithTool(e.r.final[k].name) = 0
          THEN ToolCatch(e, e.r.final[k].id, NoServerError(e.r.final[k].name))
          ELSE [e EXCEPT !.r.pc = "tool",
                         !.r.server =
                           servers[serverWithTool(e.r.final[k].name)].id]

\* after stream.finalMessage() resolved
AfterFinal(e) ==
  IF Len(cachedApiMessages(e.r.cur)) = 2
  THEN [e EXCEPT !.r.pc = "title"]
  ELSE ToolPhase(e)

\* the effect is evaluated once and written to the state
Apply(t, e) ==
  \E x \in {e} :
    /\ turns' = [turns EXCEPT ![t] = x.r]
    /\ messages' = x.msgs
    /\ convName' = x.name
    /\ error' = x.err
    /\ shouldCancel' = x.cancel
    /\ isLoading' = x.loading

----------------------------------------------------------------------------
(* The environment: user input, provider replies, tool results *)

InputTexts == {<<>>, <<" ">>, <<"hi">>}

\* the k-th text delta of a response
DeltaText(k) == IF k = 1 THEN "a" ELSE IF k = 2 THEN "b" ELSE "c"

\* ids are fresh: the provider never repeats an id within a history
ToolUseId(t, n, k) == t * 1000 + n * 10 + k

\* finalResponse.content for the request of call t; its text is the streamed
\* text
Responses(t) ==
  LET r == turns[t]
      n == Len(r.cur)
      txt == TextBlock(r.streamText)
  IN {<<txt>>} \cup
     (IF n - r.base < MaxToolUses
      THEN {<<txt, ToolUseBlock(ToolUseId(t, n, 1), nm)>> : nm \in ToolNames}
           \cup {<<txt, ToolUseBlock(ToolUseId(t, n, 1), "search"),
                   ToolUseBlock(ToolUseId(t, n, 2), "search")>>}
      ELSE {})

ResultIds(msgs) ==
  LET blocks == FlatMapContent(msgs)
  IN {blocks[i].tool_use_id :
        i \in {j \in 1..Len(blocks) : blocks[j].type = "tool_result"}}

JudgeValues == {"Yes", "No", " Yes", "Maybe"}

JudgeLines(keys) ==
  {<<k>> : k \in keys} \cup {<<k, v>> : k \in keys, v \in JudgeValues}

JudgeReplies(keys) ==
  {[isText |-> FALSE, lines |-> <<>>]} \cup
  {[isText |-> TRUE, lines |-> ls] :
     ls \in UNION {[1..n -> JudgeLines(keys)] : n \in 0..MaxLines}}

TitleReplies ==
  {[isText |-> FALSE, text |-> <<>>],
   [isText |-> TRUE, text |-> <<"Title", ":", " ", "Weather", " ", "Forecast">>],
   [isText |-> TRUE, text |-> <<"\"", "title", "\"">>]}

----------------------------------------------------------------------------
(* Actions *)

\* SubmitRejected that shows no message for a missing API key
SubmitRejected_Silent(inputMessage) ==
  /\ ~isLoading
  /\ TrimText(inputMessage) = <<>> \/ ~apiKey
  /\ shouldCancel' = FALSE
  /\ error' = error
  /\ UNCHANGED <<messages, convName, apiKey, elide, isLoading,
                 turns, nturns, fnIn, fnOut>>

\* handleSendMessage returning before the try block; inputMessage is the
\* text typed since the last submit
SubmitRejected(inputMessage) ==
  /\ ~isLoading
  /\ TrimText(inputMessage) = <<>> \/ ~apiKey
  /\ shouldCancel' = FALSE
  /\ error' = IF TrimText(inputMessage) = <<>> THEN error
              ELSE "Please set your API key in settings"
  /\ UNCHANGED <<messages, convName, apiKey, elide, isLoading,
                 turns, nturns, fnIn, fnOut>>

\* handleSendMessage up to its first await
Submit(inputMessage) ==
  /\ ~isLoading
  /\ TrimText(inputMessage) # <<>>
  /\ apiKey
  /\ nturns < MaxTurns
  /\ LET t == nturns + 1
         currentMessages ==
           Append(messages, ArrayMessage("user", <<TextBlock(inputMessage)>>))
         r0 == [IdleTurn EXCEPT !.cur = currentMessages,
                                !.handed = TRUE,
                                !.snapName = convName,
                                !.base = Len(currentMessages)]
         e0 == [r |-> r0, msgs |-> messages, name |-> convName,
                err |-> "", cancel |-> FALSE, loading |-> TRUE]
     IN Apply(t, LoopTop(updateConversationMessages(e0, currentMessages)))
  /\ nturns' = nturns + 1
  /\ UNCHANGED <<apiKey, elide, fnIn, fnOut>>

\* cancelCurrentCall (the button cancels while loading)
cancelCurrentCall ==
  /\ isLoading
  /\ shouldCancel' = TRUE
  /\ isLoading' = FALSE
  /\ error' = "Operation cancelled"
  /\ turns' = [t \in TurnIds |->
                 IF turns[t].pc \in ActivePcs /\ turns[t].cancelledAt = "none"
                 THEN [turns[t] EXCEPT !.cancelledAt = turns[t].pc]
                 ELSE turns[t]]
  /\ UNCHANGED <<messages, convName, apiKey, elide, nturns, fnIn, fnOut>>

Frame == UNCHANGED <<apiKey, elide, nturns, fnIn, fnOut>>

\* the judge call resolves: verdict parsing, then the streaming request
JudgeOk(t, reply) ==
  /\ turns[t].pc = "judge"
  /\ LET res == ParseJudge(turns[t].saved, reply)
         e == [Eff(t) EXCEPT !.r.saved = res.saved]
     IN Apply(t, IF res.threw
                 THEN Catch(e, "TypeError")
                 ELSE SendMain(e))
  /\ Frame

\* the judge call rejects
JudgeFail(t) ==
  /\ turns[t].pc = "judge"
  /\ Apply(t, Catch(Eff(t), "API error"))
  /\ Frame

\* StreamText that appends the placeholder to the stored list
StreamText_Append(t) ==
  /\ turns[t].pc = "stream"
  /\ Len(turns[t].streamText) < MaxDeltas
  /\ LET e == [Eff(t) EXCEPT
                 !.r.streamText = Append(@, DeltaText(Len(@) + 1))]
         currentStreamMessage ==
           ArrayMessage("assistant", <<TextBlock(e.r.streamText)>>)
     IN Apply(t, updateConversationMessages(e,
                   Append(messages, currentStreamMessage)))
  /\ Frame

\* on('text'): one delta of the streamed response
StreamText(t) ==
  /\ turns[t].pc = "stream"
  /\ Len(turns[t].streamText) < MaxDeltas
  /\ LET e == [Eff(t) EXCEPT
                 !.r.streamText = Append(@, DeltaText(Len(@) + 1))]
         currentStreamMessage ==
           ArrayMessage("assistant", <<TextBlock(e.r.streamText)>>)
     IN Apply(t, updateConversationMessages(e,
                   Append(e.r.cur, currentStreamMessage)))
  /\ Frame

\* stream.finalMessage() resolves
StreamFinal(t, resp) ==
  /\ turns[t].pc = "stream"
  /\ LET ids == {resp[i].id : i \in {j \in 1..Len(resp) :
                                       resp[j].type = "tool_use"}}
         e == [Eff(t) EXCEPT !.r.final = resp,
                             !.r.sent = <<>>,
                             !.r.pending = @ \cup ids]
     IN Apply(t, AfterFinal(e))
  /\ Frame

\* the streaming request rejects
StreamFail(t) ==
  /\ turns[t].pc = "stream"
  /\ Apply(t, Catch(Eff(t), "API error"))
  /\ Frame

\* the title call resolves
TitleOk(t, reply) ==
  /\ turns[t].pc = "title"
  /\ LET e == Eff(t)
         title == suggestedTitle(reply.text)
     IN Apply(t, ToolPhase(IF reply.isText /\ title # <<>>
                           THEN [e EXCEPT !.name = title] ELSE e))
  /\ Frame

\* the title call rejects
TitleFail(t) ==
  /\ turns[t].pc = "title"
  /\ Apply(t, Catch(Eff(t), "API error"))
  /\ Frame

\* executeTool resolves
ToolOk(t) ==
  /\ turns[t].pc = "tool"
  /\ LET e == Eff(t)
         k == FindType(e.r.final, {"tool_use"})
     IN Apply(t, ToolContinue(e, e.r.final[k].id, "42 results"))
  /\ Frame

\* executeTool rejects
ToolFail(t) ==
  /\ turns[t].pc = "tool"
  /\ LET e == Eff(t)
         k == FindType(e.r.final, {"tool_use"})
     IN Apply(t, ToolCatch(e, e.r.final[k].id, "Error: boom"))
  /\ Frame

\* no call of handleSendMessage is between two awaits
NoLoopRunning == \A t \in TurnIds : turns[t].pc \notin ActivePcs

\* The steps other than an accepted submit; every reply of the provider and
\* of the tools is possible.
Steps ==
  \/ \E text \in InputTexts : SubmitRejected(text)
  \/ cancelCurrentCall
  \/ \E t \in TurnIds :
       /\ turns[t].pc = "judge"
       /\ \E reply \in JudgeReplies(ResultIds(turns[t].cur)) : JudgeOk(t, reply)
  \/ \E t \in TurnIds : JudgeFail(t)
  \/ \E t \in TurnIds : StreamText(t)
  \/ \E t \in TurnIds :
       /\ turns[t].pc = "stream"
       /\ \E resp \in Responses(t) : StreamFinal(t, resp)
  \/ \E t \in TurnIds : StreamFail(t)
  \/ \E t \in TurnIds : \E reply \in TitleReplies : TitleOk(t, reply)
  \/ \E t \in TurnIds : TitleFail(t)
  \/ \E t \in TurnIds : ToolOk(t)
  \/ \E t \in TurnIds : ToolFail(t)

\* The user starts a new turn only after the loop of the previous one has
\* returned.
Next ==
  \/ Steps
  \/ \E text \in InputTexts : NoLoopRunning /\ Submit(text)

Spec == Init /\ [][Next]_vars

\* One turn on a new conversation.
LoopNext ==
  \/ Steps
  \/ \E text \in InputTexts : nturns = 0 /\ Submit(text)

LoopSpec == Init /\ [][LoopNext]_vars

\* The stored conversation when the component is mounted: a new one, the
\* one a turn whose request failed has left in the store, or the one a turn
\* with a tool use and a streamed answer has left there.
PriorStores ==
  {<<>>,
   <<ArrayMessage("user", <<TextBlock(<<"hi">>)>>)>>,
   <<ArrayMessage("user", <<TextBlock(<<"hi">>)>>),
     ArrayMessage("user", <<ToolResultBlock(ToolUseId(1, 1, 1), "42 results", FALSE)>>),
     ArrayMessage("assistant", <<TextBlock(<<"a">>)>>)>>}

StoredInit ==
  /\ messages \in PriorStores
  /\ convName = <<"New Chat">>
  /\ apiKey \in BOOLEAN
  /\ elide \in BOOLEAN
  /\ isLoading = FALSE
  /\ error = ""
  /\ shouldCancel = FALSE
  /\ turns = [t \in TurnIds |-> IdleTurn]
  /\ nturns = 0
  /\ fnIn = <<>>
  /\ fnOut = [set |-> FALSE, val |-> <<>>, threw |-> FALSE]

\* One turn on a stored conversation.
StoredSpec == StoredInit /\ [][LoopNext]_vars

\* The user may submit again as soon as the button shows Send, also while
\* the loop of a cancelled turn is still running.  Elision is off and the
\* provider answers with a text or with one use of the served tool.
RaceInit == Init /\ apiKey /\ ~elide

RaceResponses(t) ==
  {resp \in Responses(t) :
     Len(resp) <= 2 /\ \A i \in 1..Len(resp) : resp[i].name # "ghost"}

RaceNext ==
  \/ \E text \in InputTexts : SubmitRejected(text)
  \/ \E text \in InputTexts : Submit(text)
  \/ cancelCurrentCall
  \/ \E t \in TurnIds :
       /\ turns[t].pc = "stream"
       /\ \E resp \in RaceResponses(t) : StreamFinal(t, resp)
  \/ \E t \in TurnIds : StreamFail(t)
  \/ \E t \in TurnIds : TitleOk(t, [isText |-> FALSE, text |-> <<>>])
  \/ \E t \in TurnIds : ToolOk(t)
  \/ \E t \in TurnIds : ToolFail(t)

RaceSpec == RaceInit /\ [][RaceNext]_vars

----------------------------------------------------------------------------
(* The shaper as a function of the message array *)

HistMessages ==
  {ArrayMessage("user", <<TextBlock(<<"hi">>)>>),
   StringMessage("user", <<"hi">>),
   ArrayMessage("assistant",
                <<TextBlock(<<"a">>), ToolUseBlock(ToolUseId(1, 1, 1), "search")>>),
   ArrayMessage("user",
                <<ToolResultBlock(ToolUseId(1, 1, 1), "42 results", FALSE)>>)}

Histories == UNION {[1..n -> HistMessages] : n \in 1..MaxHist}

ShapeStart ==
  /\ messages = <<>> /\ convName = <<"New Chat">>
  /\ apiKey = TRUE /\ elide = FALSE
  /\ isLoading = FALSE /\ error = "" /\ shouldCancel = FALSE
  /\ turns = [t \in TurnIds |-> IdleTurn] /\ nturns = 0
  /\ fnIn \in Histories
  /\ fnOut = [set |-> FALSE, val |-> <<>>, threw |-> FALSE]

\* const cachedApiMessages = currentMessages.map(...)
Shape ==
  /\ ~fnOut.set
  /\ fnOut' = [set |-> TRUE, val |-> cachedApiMessages(fnIn), threw |-> FALSE]
  /\ UNCHANGED <<messages, convName, apiKey, elide, isLoading, error,
                 shouldCancel, turns, nturns, fnIn>>

ShapeSpec == ShapeStart /\ [][Shape]_vars

\* The shaper built repeatedly from one currentMessages array while the
\* cancel flag and savedToolResults change.  fnOut.val lists the builds, each
\* with the flag and the set at the time.
BuildShaped ==
  /\ Len(fnOut.val) < MaxBuilds
  /\ fnOut' = [fnOut EXCEPT
                 !.set = TRUE,
                 !.val = Append(@, [payload |-> cachedApiMessages(fnIn),
                                    cancel |-> shouldCancel,
                                    saved |-> turns[1].saved])]
  /\ UNCHANGED <<messages, convName, apiKey, elide, isLoading, error,
                 shouldCancel, turns, nturns, fnIn>>

\* shouldCancelRef.current is written (cancelCurrentCall, finally)
FlipCancel ==
  /\ shouldCancel' = ~shouldCancel
  /\ UNCHANGED <<messages, convName, apiKey, elide, isLoading, error,
                 turns, nturns, fnIn, fnOut>>

\* a verdict of the judge changes savedToolResults
SaveVerdict(key, value) ==
  /\ turns' = [turns EXCEPT ![1].saved = ApplyVerdict(@, key, value)]
  /\ UNCHANGED <<messages, convName, apiKey, elide, isLoading, error,
                 shouldCancel, nturns, fnIn, fnOut>>

ReshapeNext ==
  \/ BuildShaped
  \/ FlipCancel
  \/ \E key \in ResultIds(fnIn) : \E value \in {"Yes", "No"} :
       SaveVerdict(key, value)

ReshapeSpec == ShapeStart /\ [][ReshapeNext]_vars

\* the marked blocks of a payload, as <<message index, block index>>
Marked(payload) ==
  UNION {{<<i, j>> : j \in {k \in 1..Len(payload[i].content) :
                               payload[i].content[k].cache_control}} :
           i \in 1..Len(payload)}

----------------------------------------------------------------------------
(* The verdict parser over the judge calls of one turn.  fnIn is the list   *)
(* of the lines the for loop has reached, fnOut.val is savedToolResults.    *)

JudgeKeys == {ToolUseId(1, 1, 1), ToolUseId(1, 2, 1)}

JudgeTexts ==
  {[isText |-> FALSE, lines |-> <<>>]} \cup
  {[isText |-> TRUE, lines |-> ls] :
     ls \in UNION {[1..n -> JudgeLines(JudgeKeys)] : n \in 0..MaxJudgeLines}}

JudgeStart ==
  /\ messages = <<>> /\ convName = <<"New Chat">>
  /\ apiKey = TRUE /\ elide = TRUE
  /\ isLoading = FALSE /\ error = "" /\ shouldCancel = FALSE
  /\ turns = [t \in TurnIds |-> IdleTurn] /\ nturns = 0
  /\ fnIn = <<>>
  /\ fnOut = [set |-> TRUE, val |-> {}, threw |-> FALSE]

RECURSIVE ReachedLines(_)
\* the lines up to and including the first one without a value
ReachedLines(lines) ==
  IF lines = <<>> THEN <<>>
  ELSE IF Len(Head(lines)) < 2 THEN <<Head(lines)>>
  ELSE <<Head(lines)>> \o ReachedLines(Tail(lines))

\* one judge reply is parsed into savedToolResults
ParseReply(reply) ==
  /\ ~fnOut.threw
  /\ Len(fnIn) + Len(reply.lines) <= MaxLog
  /\ LET res == ParseJudge(fnOut.val, reply)
     IN fnOut' = [set |-> TRUE, val |-> res.saved, threw |-> res.threw]
  /\ fnIn' = fnIn \o (IF reply.isText THEN ReachedLines(reply.lines) ELSE <<>>)
  /\ UNCHANGED <<messages, convName, apiKey, elide, isLoading, error,
                 shouldCancel, turns, nturns>>

JudgeSpec == JudgeStart /\ [][\E reply \in JudgeTexts : ParseReply(reply)]_vars

\* the verdict lines for key among the reached lines: value Yes or No after
\* removal of surrounding blanks
VerdictsFor(log, key) ==
  {i \in 1..Len(log) :
     /\ Len(log[i]) >= 2
     /\ log[i][1] = key
     /\ log[i][2] \in {"Yes", " Yes", "No"}}

LastIsYes(log, key) ==
  /\ VerdictsFor(log, key) # {}
  /\ LET i == CHOOSE k \in VerdictsFor(log, key) :
                \A j \in VerdictsFor(log, key) : j <= k
     IN log[i][2] \in {"Yes", " Yes"}

----------------------------------------------------------------------------
(* Fairness: every awaited call settles *)

Settle(t) ==
  \/ /\ turns[t].pc = "judge"
     /\ \/ \E reply \in JudgeReplies(ResultIds(turns[t].cur)) : JudgeOk(t, reply)
        \/ JudgeFail(t)
  \/ /\ turns[t].pc = "stream"
     /\ \/ \E resp \in Responses(t) : StreamFinal(t, resp)
        \/ StreamFail(t)
  \/ /\ turns[t].pc = "title"
     /\ \/ \E reply \in TitleReplies : TitleOk(t, reply)
        \/ TitleFail(t)
  \/ /\ turns[t].pc = "tool"
     /\ \/ ToolOk(t)
        \/ ToolFail(t)

FairSpec == LoopSpec /\ \A t \in TurnIds : WF_vars(Settle(t))

----------------------------------------------------------------------------
(* Properties *)

HasToolResult(m) == ~m.isStr /\ FindType(m.content, {"tool_result"}) # 0

\* C1: when the cancel flag was set while a call awaited executeTool, the
\* call starts no provider request (judge or stream) once the tool settles.
C1_NoRequestAfterCancelledTool ==
  [][\A t \in TurnIds :
       (turns[t].pc = "tool" /\ turns[t].cancelledAt = "tool")
         => turns'[t].pc \notin RequestPcs]_vars

\* C2: at no time are two provider calls in flight for the conversation, and
\* at most one orchestration loop is active.
C2_OneLoopOneCall ==
  /\ Cardinality({t \in TurnIds : turns[t].pc \in RequestPcs}) <= 1
  /\ Cardinality({t \in TurnIds : turns[t].pc \in ActivePcs}) <= 1

\* C3: every tool_result block of the stored conversation names the id of a
\* tool_use block of an earlier stored message.
C3_ResultRefersToEarlierUse ==
  \A i \in 1..Len(messages) :
    \A j \in 1..Len(messages[i].content) :
      messages[i].content[j].type = "tool_result" =>
        \E k \in 1..(i - 1) : \E l \in 1..Len(messages[k].content) :
          /\ messages[k].content[l].type = "tool_use"
          /\ messages[k].content[l].id = messages[i].content[j].tool_use_id

\* C4: a call of handleSendMessage whose awaited calls all settle reaches
\* the end of its loop, and the component is then not loading.
C4_LoopTerminates ==
  \A t \in TurnIds :
    (turns[t].pc \in ActivePcs) ~> (turns[t].pc = "done" /\ ~isLoading)

\* C4 witness: a call that received a tool_use has returned and the
\* component is not loading.
C4_Witness ==
  /\ \E t \in TurnIds : turns[t].pc = "done"
  /\ ~isLoading
  /\ \E i \in 1..Len(messages) : HasToolResult(messages[i])

\* C5: when a call that was not cancelled leaves its loop without an error,
\* every tool_use block it received has been answered by a tool_result.
C5_EveryToolUseAnswered ==
  [][\A t \in TurnIds :
       (/\ turns[t].pc \in ActivePcs
        /\ turns'[t].pc = "done"
        /\ turns[t].cancelledAt = "none"
        /\ error' = "")
         => turns[t].pending = {}]_vars

\* C6: when the cancel flag was set while the streaming request was in
\* flight, the call neither executes a tool nor starts a provider request
\* once the final message has arrived.
C6_NoWorkAfterCancelledStream ==
  [][\A t \in TurnIds :
       (turns[t].pc = "stream" /\ turns[t].cancelledAt = "stream")
         => /\ turns'[t].pc \notin {"judge", "title", "tool"}
            /\ turns'[t].pc = "stream" => turns'[t].cur = turns[t].cur]_vars

\* C7: the cancel flag, once set during a call, stays set as long as that
\* call has not left its loop.
C7_CancelNotLost ==
  [][\A t \in TurnIds :
       (/\ shouldCancel
        /\ turns[t].cancelledAt # "none"
        /\ turns'[t].pc \in ActivePcs)
         => shouldCancel']_vars

C9_NewestNeverElided ==
  \A t \in TurnIds :
    (turns[t].pc = "stream" /\ elide) =>
      /\ Len(turns[t].sent) = Len(turns[t].cur)
      /\ \A i \in 1..Len(turns[t].cur) :
           \A j \in 1..Len(turns[t].cur[i].content) :
             (/\ turns[t].cur[i].content[j].type = "tool_result"
              /\ turns[t].cur[i].content[j].tool_use_id
                   = newestToolResultId(turns[t].cur))
               => /\ Len(turns[t].sent[i].content) = Len(turns[t].cur[i].content)
                  /\ turns[t].sent[i].content[j].type = "tool_result"
                  /\ turns[t].sent[i].content[j].tool_use_id
                       = turns[t].cur[i].content[j].tool_use_id
                  /\ turns[t].sent[i].content[j].content
                       = turns[t].cur[i].content[j].content

\* C9 witness: a streaming request with an older tool result elided and the
\* newest one, not saved by the judge, sent as stored.
C9_Witness ==
  \E t \in TurnIds :
    /\ turns[t].pc = "stream" /\ elide
    /\ newestToolResultId(turns[t].cur) # NoId
    /\ newestToolResultId(turns[t].cur) \notin turns[t].saved
    /\ \E i \in 1..Len(turns[t].sent) :
         /\ HasToolResult(turns[t].sent[i])
         /\ turns[t].sent[i].content[1].content = Elided
    /\ \E i \in 1..Len(turns[t].sent) :
         /\ HasToolResult(turns[t].sent[i])
         /\ turns[t].sent[i].content[1].tool_use_id
              = newestToolResultId(turns[t].cur)
         /\ turns[t].sent[i].content[1].content = "42 results"

\* C10: an id is in savedToolResults exactly if the last Yes/No verdict line
\* parsed for it said Yes.
C10_SavedIffLastYes ==
  \A key \in JudgeKeys : key \in fnOut.val <=> LastIsYes(fnIn, key)

\* C10 witness: an id saved by a Yes and removed by a later No.
C10_Witness ==
  \E key \in JudgeKeys :
    /\ key \notin fnOut.val
    /\ \E i, j \in 1..Len(fnIn) :
         /\ i < j
         /\ Len(fnIn[i]) >= 2 /\ fnIn[i][1] = key /\ fnIn[i][2] \in {"Yes", " Yes"}
         /\ Len(fnIn[j]) >= 2 /\ fnIn[j][1] = key /\ fnIn[j][2] = "No"

\* C11: a judge reply that resolves, malformed verdict lines included, shows
\* no error and the call goes on to issue the streaming request.
C11_MalformedLineSkipped ==
  [][\A t \in TurnIds :
       turns[t].pc = "judge" =>
         \A reply \in JudgeReplies(ResultIds(turns[t].cur)) :
           JudgeOk(t, reply) =>
             /\ error' = error
             /\ turns'[t].pc = "stream"]_vars

\* C12: a rejected title call shows no error and the call goes on as if no
\* title call had been made: the tool_use of the final response is dispatched.
C12_TitleFailureAbsorbed ==
  [][\A t \in TurnIds :
       TitleFail(t) =>
         /\ error' = error
         /\ Apply(t, ToolPhase(Eff(t)))]_vars

\* C13: a rejected judge call shows no error and the call still issues the
\* streaming request of the iteration.
C13_JudgeFailureAbsorbed ==
  [][\A t \in TurnIds :
       JudgeFail(t) =>
         /\ error' = error
         /\ Apply(t, SendMain(Eff(t)))]_vars

\* C14 as stated: without an API key every submit, whatever the input, ends
\* with the API-key message shown.
C14_AnySubmitShowsError ==
  ~apiKey =>
    \A text \in InputTexts :
      ~ENABLED (SubmitRejected(text)
                  /\ error' # "Please set your API key in settings")

\* C14 amended: without an API key no call ever reaches a provider request
\* and the component never loads; the submit of a non-blank message is
\* rejected, shows the API-key message and starts nothing.
C14_NoKeyAborts ==
  ~apiKey =>
    /\ \A t \in TurnIds : turns[t].pc = "idle"
    /\ ~isLoading
    /\ \A text \in InputTexts :
         TrimText(text) # <<>> =>
           /\ ~ENABLED Submit(text)
           /\ ENABLED SubmitRejected(text)
           /\ ~ENABLED (SubmitRejected(text)
                          /\ ~(/\ error' = "Please set your API key in settings"
                               /\ ~isLoading'
                               /\ turns' = turns
                               /\ messages' = messages))

\* C14 witness: the API-key message is shown, nothing is loading and no call
\* has started.
C14_Witness ==
  /\ ~apiKey
  /\ error = "Please set your API key in settings"
  /\ ~isLoading
  /\ \A t \in TurnIds : turns[t].pc = "idle"

\* C15: when the streaming request rejects while the cancel flag is not set,
\* the error message is shown, the call has returned with the flag false and
\* the component not loading, and a call that has returned does nothing more.
C15_StreamFailureReported ==
  [][\A t \in TurnIds :
       /\ (StreamFail(t) /\ ~shouldCancel) =>
            /\ error' = "API error"
            /\ turns'[t].pc = "done"
            /\ ~shouldCancel'
            /\ ~isLoading'
            /\ messages' = messages
       /\ turns[t].pc = "done" => turns'[t].pc = "done"]_vars

\* C15 witness: with elision off and no title call due, the streaming request
\* of a turn on the stored conversation failed after a text delta.
C15_Witness ==
  /\ error = "API error"
  /\ ~elide
  /\ ~shouldCancel
  /\ ~isLoading
  /\ \E t \in TurnIds : turns[t].pc = "done"
  /\ Len(messages) = 5
  /\ messages[5].role = "assistant"

\* the step of call t that reaches the tool dispatch with the final response
\* content: the final message resolves with no title call due, or the title
\* call resolves
Dispatches(t, content) ==
  \/ /\ turns[t].pc = "stream"
     /\ Len(turns[t].cur) # 2
     /\ StreamFinal(t, content)
  \/ /\ turns[t].pc = "title"
     /\ turns[t].final = content
     /\ \E reply \in TitleReplies : TitleOk(t, reply)

\* the responses the dispatch of call t can see
DispatchContents(t) ==
  IF turns[t].pc = "stream" THEN Responses(t)
  ELSE IF turns[t].pc = "title" THEN {turns[t].final}
  ELSE {}

\* C16: for the first tool_use {id T, name N} of the final response: when a
\* server advertises N, executeTool is awaited and, once it resolves to R, the
\* message tool_result{T, R} without error flag is appended and a request is
\* sent; when no server advertises N, tool_result{T, explanatory message,
\* is_error} is appended and no error is shown.
C16_ToolDispatch ==
  [][\A t \in TurnIds :
       /\ ToolOk(t) =>
            LET u == turns[t].final[FindType(turns[t].final, {"tool_use"})]
            IN /\ serverWithTool(u.name) # 0
               /\ messages' =
                    Append(turns[t].cur,
                           ArrayMessage("user",
                             <<ToolResultBlock(u.id, "42 results", FALSE)>>))
               /\ turns'[t].cur = messages'
               /\ turns'[t].pc \in RequestPcs
               /\ error' = error
       /\ \A content \in DispatchContents(t) :
            (Dispatches(t, content) /\ FindType(content, {"tool_use"}) # 0) =>
              LET u == content[FindType(content, {"tool_use"})]
              IN IF serverWithTool(u.name) # 0
                 THEN /\ turns'[t].pc = "tool"
                      /\ messages' = messages
                      /\ error' = error
                 ELSE /\ messages' =
                           Append(turns[t].cur,
                                  ArrayMessage("user",
                                    <<ToolResultBlock(u.id,
                                        NoServerError(u.name), TRUE)>>))
                      /\ error' = error
                      /\ ~shouldCancel => turns'[t].pc \in RequestPcs]_vars

\* C16 witness: the error result for a tool that no server advertises has
\* been appended, no error is shown and the next request is in flight.
C16_Witness ==
  \E t \in TurnIds :
    /\ turns[t].pc \in RequestPcs
    /\ error = ""
    /\ turns[t].cur = messages
    /\ LET m == messages[Len(messages)]
       IN /\ m.role = "user"
          /\ m.content[1].type = "tool_result"
          /\ m.content[1].is_error
          /\ m.content[1].content = NoServerError("ghost")
          /\ m.content[1].tool_use_id = ToolUseId(t, Len(messages) - 1, 1)

\* C17: an accepted submit stores the prior messages followed by the user
\* message and issues the streaming request; when the response to that first
\* request is a plain text, the store is the prior and user messages followed
\* by one assistant message with the text, and the call returns (after the
\* title call, if one is due) without another request.
C17_PlainTextTurn ==
  [][\A t \in TurnIds :
       /\ \A text \in InputTexts :
            (Submit(text) /\ t = nturns + 1) =>
              /\ messages' =
                   Append(messages, ArrayMessage("user", <<TextBlock(text)>>))
              /\ turns'[t].cur = messages'
              /\ turns'[t].base = Len(messages) + 1
              /\ turns'[t].pc = "stream"
       /\ (/\ turns[t].pc = "stream"
           /\ Len(turns[t].cur) = turns[t].base
           /\ turns[t].streamText # <<>>
           /\ StreamFinal(t, <<TextBlock(turns[t].streamText)>>)) =>
              /\ messages' =
                   Append(turns[t].cur,
                          ArrayMessage("assistant",
                                       <<TextBlock(turns[t].streamText)>>))
              /\ Len(messages') = turns[t].base + 1
              /\ turns'[t].pc \in {"done", "title"}
              /\ turns'[t].pc = "title" =>
                   FindType(turns'[t].final, {"tool_use"}) = 0
       /\ (/\ turns[t].pc = "title"
           /\ FindType(turns[t].final, {"tool_use"}) = 0
           /\ turns'[t].pc # "title") =>
              /\ turns'[t].pc = "done"
              /\ messages' = messages]_vars

\* C17 witness: the turn on an empty conversation has returned after a plain
\* text response and the store holds the user and the assistant message.
C17_Witness ==
  /\ \E t \in TurnIds : turns[t].pc = "done"
  /\ error = ""
  /\ messages = <<ArrayMessage("user", <<TextBlock(<<"hi">>)>>),
                  ArrayMessage("assistant", <<TextBlock(<<"a">>)>>)>>

\* C18: when the first request of the turn on a brand-new conversation
\* resolves with a plain text, so that the conversation holds the first user
\* message and the first assistant reply, the title call is issued; a title
\* call is issued at no other point.
C18_TitleAfterFirstExchange ==
  [][\A t \in TurnIds :
       /\ (/\ turns[t].pc = "stream"
           /\ turns[t].base = 1
           /\ Len(turns[t].cur) = 1
           /\ turns[t].streamText # <<>>
           /\ StreamFinal(t, <<TextBlock(turns[t].streamText)>>)) =>
              turns'[t].pc = "title"
       /\ (turns[t].pc # "title" /\ turns'[t].pc = "title") =>
              /\ turns[t].base = 1
              /\ Len(turns[t].cur) = 1]_vars

\* no block of the messages has had its content replaced by 'elided'
NoElidedBlock(msgs) ==
  \A i \in 1..Len(msgs) :
    \A j \in 1..Len(msgs[i].content) : msgs[i].content[j].content # Elided

\* C19: neither the stored conversation nor currentMessages ever holds an
\* elided tool_result, and the messages of currentMessages are only appended
\* to: asking the judge and building the payload leave them as they are.
C19_StoreNeverElided ==
  /\ [](/\ NoElidedBlock(messages)
        /\ \A t \in TurnIds :
             /\ NoElidedBlock(turns[t].cur)
             /\ turns[t].pc = "judge" =>
                  LET asked == JudgeTranscript(cachedApiMessages(turns[t].cur))
                  IN /\ asked[Len(asked)] = JudgePrompt
                     /\ ResultIds(turns[t].cur) # {}
                     /\ Len(asked) = 1 + Cardinality(ResultIds(turns[t].cur))
                     /\ \A i \in 1..(Len(asked) - 1) :
                          asked[i].content[1].type = "text")
  /\ [][\A t \in TurnIds :
          (turns[t].pc \in ActivePcs /\ turns'[t].pc \in ActivePcs) =>
            /\ Len(turns'[t].cur) >= Len(turns[t].cur)
            /\ SubSeq(turns'[t].cur, 1, Len(turns[t].cur)) = turns[t].cur
            /\ turns[t].pc = "judge" => turns'[t].cur = turns[t].cur
            /\ SubSeq(messages', 1, Len(turns[t].cur)) = turns[t].cur]_vars

\* C19 witness: while a payload with an elided tool result is in flight, the
\* store has been written with the result's content intact.
C19_Witness ==
  \E t \in TurnIds :
    /\ turns[t].pc = "stream"
    /\ Len(messages) = Len(turns[t].cur) + 1
    /\ \E i \in 1..Len(turns[t].sent) :
         /\ HasToolResult(turns[t].sent[i])
         /\ turns[t].sent[i].content[1].content = Elided
         /\ turns[t].cur[i].content[1].content = "42 results"
         /\ messages[i].content[1].content = "42 results"

\* C20: a store update made by a call leaves the stored name of the
\* conversation as it is at the moment of the update: outside the title
\* rename no step of a call changes the name.
C20_UpdateKeepsName ==
  [][\A t \in TurnIds :
       (/\ turns[t].pc \in ActivePcs \ {"title"}
        /\ turns'[t] # turns[t])
         => convName' = convName]_vars

\* the server id is one of activeProject.settings.mcpServers
Configured(id) == \E i \in 1..Len(mcpServers) : mcpServers[i] = id

\* C21: executeTool is called with the first server, among the configured
\* ones, that advertises the requested tool.
C21_ConfiguredServerOnly ==
  \A t \in TurnIds :
    turns[t].pc = "tool" =>
      LET name == turns[t].final[FindType(turns[t].final, {"tool_use"})].name
          hits == {i \in 1..Len(servers) :
                     /\ Configured(servers[i].id)
                     /\ \E j \in 1..Len(servers[i].tools) :
                          servers[i].tools[j] = name}
      IN /\ hits # {}
         /\ turns[t].server =
              servers[CHOOSE i \in hits : \A j \in hits : i <= j].id

AppendsOneResult(after, msgs, id) ==
  /\ Len(after) = Len(msgs) + 1
  /\ SubSeq(after, 1, Len(msgs)) = msgs
  /\ after[Len(after)].role = "user"
  /\ Len(after[Len(after)].content) = 1
  /\ after[Len(after)].content[1].type = "tool_result"
  /\ after[Len(after)].content[1].tool_use_id = id

\* C23: in an iteration whose final response has a tool_use, one tool_result
\* message for it is appended when executeTool resolves, when it rejects and
\* when no server is found, and nothing is appended otherwise; after a
\* rejection the result is error-flagged with the error's message, no error is
\* shown and, unless the cancel flag is set, the next request is sent.
C23_OneResultPerToolUse ==
  [][\A t \in TurnIds :
       /\ (ToolOk(t) \/ ToolFail(t)) =>
            AppendsOneResult(messages', turns[t].cur,
              turns[t].final[FindType(turns[t].final, {"tool_use"})].id)
       /\ ToolFail(t) =>
            /\ messages'[Len(messages')].content[1].is_error
            /\ messages'[Len(messages')].content[1].content = "Error: boom"
            /\ error' = error
            /\ IF shouldCancel
               THEN turns'[t].pc = "done"
               ELSE /\ turns'[t].pc \in RequestPcs
                    /\ turns'[t].cur = messages'
       /\ \A content \in DispatchContents(t) :
            Dispatches(t, content) =>
              IF FindType(content, {"tool_use"}) = 0
              THEN messages' = messages
              ELSE LET u == content[FindType(content, {"tool_use"})]
                   IN IF serverWithTool(u.name) # 0
                      THEN messages' = messages /\ turns'[t].cur = turns[t].cur
                      ELSE AppendsOneResult(messages', turns[t].cur, u.id)
       /\ (turns[t].pc \in ActivePcs /\ turns'[t].pc \in ActivePcs) =>
            Len(turns'[t].cur) \in {Len(turns[t].cur), Len(turns[t].cur) + 1}]_vars

\* C23 witness: executeTool rejected, the error-flagged result is the last
\* message, no error is shown and the next request is in flight.
C23_Witness ==
  \E t \in TurnIds :
    /\ turns[t].pc \in RequestPcs
    /\ error = ""
    /\ turns[t].cur = messages
    /\ messages[Len(messages)] =
         ArrayMessage("user",
           <<ToolResultBlock(ToolUseId(t, Len(messages) - 1, 1),
                             "Error: boom", TRUE)>>)

\* new is the streaming assistant message old with its text grown
GrownStreamMessage(old, new) ==
  /\ old.role = "assistant" /\ new.role = "assistant"
  /\ Len(old.content) = 1 /\ Len(new.content) = 1
  /\ old.content[1].type = "text" /\ new.content[1].type = "text"
  /\ Len(old.content[1].text) <= Len(new.content[1].text)
  /\ SubSeq(new.content[1].text, 1, Len(old.content[1].text))
       = old.content[1].text

\* C24: while a call runs, every stored message stays in the store at its
\* place, unchanged except for the growth of the text of the streaming
\* assistant message at the end.
C24_StoreOnlyGrows ==
  [][(\E t \in TurnIds : turns[t].pc \in ActivePcs) =>
       /\ Len(messages') >= Len(messages)
       /\ \A i \in 1..Len(messages) :
            \/ messages'[i] = messages[i]
            \/ /\ i = Len(messages)
               /\ GrownStreamMessage(messages[i], messages'[i])]_vars

\* C25: in every streaming request, each tool_result block is preceded, in an
\* earlier message of the payload, by the tool_use block with the same id.
C25_PayloadPairsToolUse ==
  \A t \in TurnIds :
    turns[t].pc = "stream" =>
      \A i \in 1..Len(turns[t].sent) :
        \A j \in 1..Len(turns[t].sent[i].content) :
          turns[t].sent[i].content[j].type = "tool_result" =>
            /\ i > 1
            /\ turns[t].sent[i - 1].role = "assistant"
            /\ \E l \in 1..Len(turns[t].sent[i - 1].content) :
                 /\ turns[t].sent[i - 1].content[l].type = "tool_use"
                 /\ turns[t].sent[i - 1].content[l].id
                      = turns[t].sent[i].content[j].tool_use_id

\* C26: an array that was given to the store is not changed afterwards: once
\* the call has given currentMessages itself to the store, it does not push
\* to currentMessages.
C26_StoredArrayNotMutated ==
  [][\A t \in TurnIds :
       (/\ turns[t].handed
        /\ turns[t].pc \in ActivePcs
        /\ turns'[t].pc \in ActivePcs)
         => turns'[t].cur = turns[t].cur]_vars

\* C27: while a response streams, the text of the placeholder is the deltas
\* received so far in order, each delta writes the store with the committed
\* messages followed by that one placeholder, and the store keeps this form
\* until the final message arrives.
C27_StreamUpsert ==
  /\ [](\A t \in TurnIds :
          turns[t].pc = "stream" =>
            /\ turns[t].streamText =
                 [k \in 1..Len(turns[t].streamText) |-> DeltaText(k)]
            /\ turns[t].streamText # <<>> =>
                 messages =
                   Append(turns[t].cur,
                          ArrayMessage("assistant",
                                       <<TextBlock(turns[t].streamText)>>)))
  /\ [][\A t \in TurnIds :
          StreamText(t) =>
            /\ turns'[t].streamText =
                 Append(turns[t].streamText,
                        DeltaText(Len(turns[t].streamText) + 1))
            /\ turns'[t].cur = turns[t].cur
            /\ Len(messages') = Len(turns[t].cur) + 1
            /\ SubSeq(messages', 1, Len(turns[t].cur)) = turns[t].cur
            /\ messages'[Len(messages')] =
                 ArrayMessage("assistant",
                              <<TextBlock(turns'[t].streamText)>>)]_vars

\* C27 witness: two deltas have arrived and the store holds the committed
\* messages and one placeholder with both.
C27_Witness ==
  \E t \in TurnIds :
    /\ turns[t].pc = "stream"
    /\ turns[t].streamText = <<"a", "b">>
    /\ Len(messages) = Len(turns[t].cur) + 1
    /\ messages[Len(messages)].content[1].text = <<"a", "b">>

\* C28: an accepted submit writes the prior messages followed by the user
\* message to the store in the step that issues the first request, and the
\* user message stays at its place in the store through every later step of
\* the call, those in which a request fails or the call ends cancelled
\* included.
C28_UserMessageStored ==
  [][\A t \in TurnIds :
       /\ \A text \in InputTexts :
            (Submit(text) /\ t = nturns + 1) =>
              /\ messages' =
                   Append(messages, ArrayMessage("user", <<TextBlock(text)>>))
              /\ turns'[t].base = Len(messages')
              /\ turns'[t].pc \in RequestPcs
       /\ turns[t].pc \in ActivePcs =>
            /\ turns[t].cur[turns[t].base].role = "user"
            /\ turns[t].cur[turns[t].base].content[1].type = "text"
            /\ Len(messages') >= turns[t].base
            /\ messages'[turns[t].base] = turns[t].cur[turns[t].base]]_vars

\* C28 witness: the first request of a turn on the stored conversation failed
\* and the user message is the last stored message.
C28_Witness ==
  /\ \E t \in TurnIds : turns[t].pc = "done"
  /\ error = "API error"
  /\ Len(messages) = 4
  /\ messages[4] = ArrayMessage("user", <<TextBlock(<<"hi">>)>>)

\* C29: a judge call is in flight only with elision on and a tool_result as
\* first block of the last shaped message; it starts only after a tool result
\* was pushed; when it settles the call sends the streaming request or
\* returns, never a second judge call; and a streaming request that needs the
\* judge is issued only in the step in which the judge call settles.
C29_JudgeBeforeMain ==
  /\ [](\A t \in TurnIds :
          turns[t].pc = "judge" =>
            /\ elide
            /\ LET shaped == cachedApiMessages(turns[t].cur)
               IN shaped[Len(shaped)].content[1].type = "tool_result")
  /\ [][\A t \in TurnIds :
          /\ (turns[t].pc = "judge" /\ turns'[t].pc # "judge") =>
               /\ turns'[t].pc \in {"stream", "done"}
               /\ turns'[t].pc = "stream" => turns'[t].cur = turns[t].cur
          /\ (turns[t].pc # "judge" /\ turns'[t].pc = "judge") =>
               Len(turns'[t].cur) = Len(turns[t].cur) + 1
          /\ (/\ turns'[t].pc = "stream"
              /\ turns[t].pc # "stream" \/ turns'[t].cur # turns[t].cur
              /\ elide
              /\ LET shaped == cachedApiMessages(turns'[t].cur)
                 IN shaped[Len(shaped)].content[1].type = "tool_result") =>
               turns[t].pc = "judge"]_vars

\* C29 witness: the judge call has settled with a result saved and the
\* streaming request of the iteration has just been sent.
C29_Witness ==
  \E t \in TurnIds :
    /\ elide
    /\ turns[t].pc = "stream"
    /\ turns[t].streamText = <<>>
    /\ turns[t].saved # {}
    /\ Len(turns[t].cur) > turns[t].base

\* C30: while a streaming request is in flight, with elision on a message of
\* the request that holds a tool_result has the content 'elided' exactly when
\* its tool_use_id is neither the newest tool result id nor in
\* savedToolResults, and every other message is the shaped message; with
\* elision off the request is the shaped messages and no judge call is ever
\* in flight.
C30_ElisionRule ==
  /\ \A t \in TurnIds :
       turns[t].pc = "stream" =>
         LET shaped == cachedApiMessages(turns[t].cur)
             newest == newestToolResultId(turns[t].cur)
             payload == turns[t].sent
         IN /\ Len(payload) = Len(shaped)
            /\ ~elide => payload = shaped
            /\ elide =>
                 \A i \in 1..Len(shaped) :
                   IF shaped[i].isStr
                      \/ FindType(shaped[i].content, {"tool_result"}) = 0
                   THEN payload[i] = shaped[i]
                   ELSE LET k == FindType(shaped[i].content, {"tool_result"})
                            id == shaped[i].content[k].tool_use_id
                            kept == id = newest \/ id \in turns[t].saved
                        IN /\ (payload[i].content[1].content = Elided) <=> ~kept
                           /\ kept => payload[i] = shaped[i]
                           /\ ~kept =>
                                /\ Len(payload[i].content) = 1
                                /\ payload[i].content[1].tool_use_id = id
                                /\ payload[i].role = shaped[i].role
  /\ ~elide => \A t \in TurnIds : turns[t].pc # "judge" /\ turns[t].saved = {}

\* C30 witness: a streaming request in flight with elision on carries an
\* older tool result in full because the judge saved it, next to the newest.
C30_Witness ==
  \E t \in TurnIds :
    /\ elide
    /\ turns[t].pc = "stream"
    /\ \E i \in 1..Len(turns[t].sent) :
         /\ ~turns[t].sent[i].isStr
         /\ turns[t].sent[i].content[1].type = "tool_result"
         /\ turns[t].sent[i].content[1].tool_use_id \in turns[t].saved
         /\ turns[t].sent[i].content[1].tool_use_id
              # newestToolResultId(turns[t].cur)
         /\ turns[t].sent[i].content[1].content # Elided

\* C31: cancelCurrentCall leaves the loading state and shows 'Operation
\* cancelled' in the same step; while a call that was cancelled is still
\* between two awaits no step of that call changes the banner, and the step
\* in which that call returns reports no error.
C31_CancelNotAnError ==
  /\ [][cancelCurrentCall =>
          ~isLoading' /\ error' = "Operation cancelled"]_vars
  /\ [][\A t \in TurnIds :
          (/\ turns[t].pc \in ActivePcs
           /\ turns[t].cancelledAt # "none"
           /\ turns'[t] # turns[t]
           /\ error = "Operation cancelled") =>
            error' = "Operation cancelled"]_vars

----------------------------------------------------------------------------
(* The tools list: getUniqueTools as a function of the connected servers   *)
(* and of the servers configured in the project                            *)

\* the tool sent for a tool of a server: name, description and input_schema
\* are copied, anything else is dropped; cache_control FALSE is its absence
ToolDefinition(tool) ==
  [name |-> tool.name, description |-> tool.description,
   input_schema |-> tool.input_schema, cache_control |-> FALSE]

\* AddTool in which a later definition replaces the one in the map
AddTool_Overwrite(toolMap, tool) ==
  IF \E i \in 1..Len(toolMap) : toolMap[i].name = tool.name
  THEN [i \in 1..Len(toolMap) |->
          IF toolMap[i].name = tool.name THEN ToolDefinition(tool)
          ELSE toolMap[i]]
  ELSE Append(toolMap, ToolDefinition(tool))

\* if (!toolMap.has(tool.name)) toolMap.set(tool.name, {...}); the map is
\* the sequence of its values in insertion order
AddTool(toolMap, tool) ==
  IF \E i \in 1..Len(toolMap) : toolMap[i].name = tool.name
  THEN toolMap
  ELSE Append(toolMap, ToolDefinition(tool))

RECURSIVE FlatMapTools(_)
\* .flatMap(s => s.tools || []); a server without tools has tools = <<>>
FlatMapTools(srvs) ==
  IF srvs = <<>> THEN <<>>
  ELSE Head(srvs).tools \o FlatMapTools(Tail(srvs))

RECURSIVE ToolMapValues(_, _)
\* .forEach(tool => ...) and Array.from(toolMap.values())
ToolMapValues(toolMap, tools) ==
  IF tools = <<>> THEN toolMap
  ELSE ToolMapValues(AddTool(toolMap, Head(tools)), Tail(tools))

\* srvs is servers of useMcp(), configured the ids of
\* activeProject.settings.mcpServers
getUniqueTools(should_cache, srvs, configured) ==
  IF Len(configured) = 0 THEN <<>>
  ELSE LET tools ==
             ToolMapValues(<<>>,
               FlatMapTools(SelectSeq(srvs,
                 LAMBDA server : \E i \in 1..Len(configured) :
                                   configured[i] = server.id)))
       IN IF ~should_cache THEN tools
          ELSE [i \in 1..Len(tools) |->
                  IF i # Len(tools) THEN tools[i]
                  ELSE [tools[i] EXCEPT !.cache_control = TRUE]]

\* the id of the i-th connected server
ServerId(i) == IF i = 1 THEN "s0" ELSE IF i = 2 THEN "s1" ELSE "s2"

\* the j-th tool of the i-th server; the description tells the definitions
\* of one name apart
ServerTool(i, j, name) ==
  [name |-> name, description |-> <<ServerId(i), j>>, input_schema |-> "object"]

ToolNameLists == UNION {[1..n -> ToolNames] : n \in 0..MaxServerTools}

\* the lists of connected servers
ServerLists ==
  UNION {{[i \in 1..n |->
             [id |-> ServerId(i),
              tools |-> [j \in 1..Len(names[i]) |->
                           ServerTool(i, j, names[i][j])]]] :
            names \in [1..n -> ToolNameLists]} : n \in 0..MaxServers}

\* the lists of configured server ids, in any order
ConfiguredLists ==
  UNION {{c \in [1..n -> {ServerId(i) : i \in 1..MaxServers}] :
            \A i, j \in 1..n : c[i] = c[j] => i = j} : n \in 0..MaxServers}

ToolsStart ==
  /\ messages = <<>> /\ convName = <<"New Chat">>
  /\ apiKey = TRUE /\ elide = FALSE
  /\ isLoading = FALSE /\ error = "" /\ shouldCancel = FALSE
  /\ turns = [t \in TurnIds |-> IdleTurn] /\ nturns = 0
  /\ fnIn \in [servers : ServerLists, mcpServers : ConfiguredLists]
  /\ fnOut = [set |-> FALSE, val |-> <<>>, threw |-> FALSE]

\* toolsCached, tools and the tools field of the streaming request
BuildTools ==
  /\ ~fnOut.set
  /\ LET toolsCached == getUniqueTools(TRUE, fnIn.servers, fnIn.mcpServers)
         tools == getUniqueTools(FALSE, fnIn.servers, fnIn.mcpServers)
     IN fnOut' = [set |-> TRUE,
                  val |-> [tools |-> tools,
                           toolsCached |-> toolsCached,
                           hasToolsField |-> Len(tools) > 0,
                           requestTools |-> IF Len(tools) > 0 THEN toolsCached
                                            ELSE <<>>],
                  threw |-> FALSE]
  /\ UNCHANGED <<messages, convName, apiKey, elide, isLoading, error,
                 shouldCancel, turns, nturns, fnIn>>

ToolsSpec == ToolsStart /\ [][BuildTools]_vars

\* the places <<server index, tool index>> at which a configured server of
\* fnIn advertises the name, and their order in the connected servers
Advertised(name) ==
  {p \in (1..Len(fnIn.servers)) \X (1..MaxServerTools) :
     /\ \E i \in 1..Len(fnIn.mcpServers) :
          fnIn.mcpServers[i] = fnIn.servers[p[1]].id
     /\ p[2] <= Len(fnIn.servers[p[1]].tools)
     /\ fnIn.servers[p[1]].tools[p[2]].name = name}

Earlier(p, q) == p[1] < q[1] \/ (p[1] = q[1] /\ p[2] <= q[2])

\* C32: the tools list of the streaming request holds each name at most
\* once, holds exactly the names advertised by configured servers, carries
\* for each name the definition of the first configured server in the order
\* of the connected servers, and marks exactly its last tool; the unmarked
\* list is the same without the mark.
C32_UniqueTools ==
  fnOut.set =>
    LET sent == fnOut.val.requestTools
        plain == fnOut.val.tools
    IN /\ \A i, j \in 1..Len(sent) : sent[i].name = sent[j].name => i = j
       /\ \A i \in 1..Len(sent) :
            \E p \in Advertised(sent[i].name) :
              /\ \A q \in Advertised(sent[i].name) : Earlier(p, q)
              /\ sent[i].description =
                   fnIn.servers[p[1]].tools[p[2]].description
       /\ \A name \in ToolNames :
            Advertised(name) # {} => \E i \in 1..Len(sent) : sent[i].name = name
       /\ \A i \in 1..Len(sent) : sent[i].cache_control <=> i = Len(sent)
       /\ Len(plain) = Len(sent)
       /\ \A i \in 1..Len(plain) :
            /\ ~plain[i].cache_control
            /\ plain[i] = [sent[i] EXCEPT !.cache_control = FALSE]
       /\ fnOut.val.hasToolsField <=> sent # <<>>

\* C32 witness: two configured servers advertise the same name, a third
\* name comes second in the list and carries the mark, and the definition
\* sent for the shared name is the one of the first connected server although
\* the project lists the other server first.
C32_Witness ==
  /\ fnOut.set
  /\ Len(fnOut.val.requestTools) = 2
  /\ Len(fnIn.servers) = 2
  /\ Len(fnIn.mcpServers) = 2
  /\ fnIn.mcpServers[1] = fnIn.servers[2].id
  /\ \E j \in 1..Len(fnIn.servers[2].tools) :
       fnIn.servers[2].tools[j].name = fnOut.val.requestTools[1].name
  /\ fnOut.val.requestTools[1].description = <<fnIn.servers[1].id, 1>>
  /\ ~fnOut.val.requestTools[1].cache_control
  /\ fnOut.val.requestTools[2].cache_control

====
